---- MODULE Spec2Model ----
(***************************************************************************)
(* State-machine model of the ISP backend: the InternetService and Payment *)
(* documents (models/InternetService.js, models/Payment.js), their         *)
(* pre('save') hooks and instance methods, and the request handlers of     *)
(* controllers/internetServiceController.js and                            *)
(* controllers/paymentController.js that read and write them.              *)
(*                                                                         *)
(* Conventions.  An optional field is <<>> when undefined and <<v>> when   *)
(* set.  Instants are integer ticks, TicksPerDay ticks to the day.  A      *)
(* calendar date is a record [y, m, d] with m in 1..12.  Money is counted  *)
(* in integer minor units.  A pre('save') hook is part of the save that    *)
(* triggers it; findByIdAndUpdate writes the store without running hooks.  *)
(***************************************************************************)
EXTENDS Integers, Sequences, FiniteSets, TLC

VARIABLES
    now,          \* the clock, in ticks
    services,     \* the InternetService collection, in insertion order
    slots,        \* requests in flight on the service API, by connection
    res,          \* last HTTP status sent by the service API (0: none yet)
    payments,     \* the Payment collection, in insertion order
    balance,      \* billingInfo.currentBalance of the client
    payRes,       \* last HTTP status of the payment API (0: none yet)
    bill,         \* a service document passing through the billing-date hook
    cost,         \* a service document evaluated by getCurrentMonthlyCost
    users,        \* the User collection: status and lock of each account
    userCache,    \* userCache of the auth middleware, by user id
    req,          \* the request last handled by the auth middleware
    clock         \* Date.now() of the auth middleware, in units of CACHE_TTL / 2

authVars == <<users, userCache, req, clock>>

vars == <<now, services, slots, res, payments, balance, payRes, bill, cost,
          users, userCache, req, clock>>

----------------------------------------------------------------------------
(* Bounds of the model                                                     *)

MaxServices == 1
MaxCreations == 3
MaxSlots == 2
MaxSuspensions == 2
MaxPlanChanges == 1
MaxTime == 2
MaxPayments == 1
MaxPartials == 2
MaxDiscounts == 2
MaxReceipts == 3
MaxData == 2
MaxClock == 4

Slots == 1..MaxSlots

----------------------------------------------------------------------------
(* Optional values and small helpers                                       *)

Undefined == <<>>

Some(x) == <<x>>

IsSet(o) == o # Undefined

RECURSIVE SumSeq(_)
SumSeq(s) == IF s = <<>> THEN 0 ELSE Head(s) + SumSeq(Tail(s))

----------------------------------------------------------------------------
(* Calendar arithmetic of the JavaScript Date object                       *)

IsLeap(y) == (y % 4 = 0 /\ y % 100 # 0) \/ y % 400 = 0

DaysInMonth(y, m) ==
    IF m = 2 THEN (IF IsLeap(y) THEN 29 ELSE 28)
    ELSE IF m \in {4, 6, 9, 11} THEN 30 ELSE 31

\* MakeDay/MakeDate: a month past December rolls into the next year and a
\* day past the end of the month rolls into the following month(s).
RECURSIVE MakeDate(_, _, _)
MakeDate(y, m, d) ==
    IF m > 12 THEN MakeDate(y + 1, m - 12, d)
    ELSE IF d > DaysInMonth(y, m) THEN MakeDate(y, m + 1, d - DaysInMonth(y, m))
    ELSE [y |-> y, m |-> m, d |-> d]

setDate(dt, day) == MakeDate(dt.y, dt.m, day)

setMonth(dt, month) == MakeDate(dt.y, month, dt.d)

DateLE(a, b) ==
    \/ a.y < b.y
    \/ a.y = b.y /\ a.m < b.m
    \/ a.y = b.y /\ a.m = b.m /\ a.d <= b.d

DateLT(a, b) == DateLE(a, b) /\ a # b

TicksPerDay == 2

\* new Date(): the calendar date of the clock; tick 0 falls on 2024-03-20.
Today(t) == MakeDate(2024, 3, 20 + (t \div TicksPerDay))

----------------------------------------------------------------------------
(* Catalogues the handlers read: users by role, internet plans             *)

Roles == {"admin", "supervisor", "billing", "technician", "operator", "client"}

\* The one client account of the model (User.findById(client), role client).
ClientId == 1

\* A second client account, and an id that names no user.
OtherClient == 2

NoClient == 0

ClientUsers == {ClientId, OtherClient}

\* The InternetService documents the payment handlers look up, by owner
\* (the ledger never changes them): two services of the client, one of the
\* other client.  Any other id names no service.
ServiceOwners ==
    [s \in 1..3 |-> IF s = 3 THEN OtherClient ELSE ClientId]

MissingService == 4

\* InternetPlan documents: price.monthly, isActive, contractDuration.
PlanCatalog ==
    [p \in 1..3 |->
        CASE p = 1 -> [monthly |-> 50, isActive |-> TRUE, contractDuration |-> 12]
          [] p = 2 -> [monthly |-> 80, isActive |-> TRUE, contractDuration |-> 12]
          [] p = 3 -> [monthly |-> 30, isActive |-> FALSE, contractDuration |-> 12]]

PlanIds == DOMAIN PlanCatalog

StatusEnum ==
    {"pending_installation", "active", "suspended", "cancelled",
     "pending_cancellation", "maintenance"}

----------------------------------------------------------------------------
(* Service codes: `SRV${String(count + 1).padStart(8, '0')}`               *)

RECURSIVE Digits(_)
Digits(n) == IF n < 10 THEN <<n>> ELSE Append(Digits(n \div 10), n % 10)

RECURSIVE padStart(_, _, _)
padStart(s, len, ch) == IF Len(s) >= len THEN s ELSE padStart(<<ch>> \o s, len, ch)

FormatServiceCode(count) == [prefix |-> "SRV", digits |-> padStart(Digits(count + 1), 8, 0)]

RECURSIVE DigitsValue(_)
DigitsValue(ds) ==
    IF ds = <<>> THEN 0
    ELSE 10 * DigitsValue(SubSeq(ds, 1, Len(ds) - 1)) + ds[Len(ds)]

\* The sequence number a service code carries.
CodeNumber(code) == DigitsValue(code.digits)

----------------------------------------------------------------------------
(* models/InternetService.js: hooks and instance methods                   *)

\* The next billing date as it would be if a candidate equal to the start
\* date were kept.
NextBillingDateKeepsEqual(startDate, billingDay) ==
    LET nextBilling == setDate(startDate, billingDay) IN
    IF DateLT(nextBilling, startDate)
    THEN setMonth(nextBilling, nextBilling.m + 1)
    ELSE nextBilling

\* pre('save'): the next billing date, from contract.startDate and
\* billing.billingDay.
NextBillingDate(startDate, billingDay) ==
    LET nextBilling == setDate(startDate, billingDay) IN
    IF DateLE(nextBilling, startDate)
    THEN setMonth(nextBilling, nextBilling.m + 1)
    ELSE nextBilling

\* The hook runs its body only when contract.startDate or
\* billing.billingCycle is modified in the document being saved.
PreSaveBilling(doc, startModified, cycleModified) ==
    IF startModified \/ cycleModified
    THEN [doc EXCEPT !.nextBillingDate =
              Some(NextBillingDate(doc.startDate, doc.billingDay))]
    ELSE doc

\* suspend as it would be if it pushed the entry and left the status.
suspendKeepsStatus(doc, reason) ==
    [doc EXCEPT
        !.suspensions = Append(@, [reason |-> reason,
                                   reactivatedAt |-> Undefined,
                                   reactivatedBy |-> Undefined,
                                   isActive |-> TRUE])]

\* suspend(reason, userId, notes): the writes of the method, on a document
\* (suspendedAt, suspendedBy and notes are not tracked).
suspend(doc, reason) ==
    [doc EXCEPT
        !.status = "suspended",
        !.suspensions = Append(@, [reason |-> reason,
                                   reactivatedAt |-> Undefined,
                                   reactivatedBy |-> Undefined,
                                   isActive |-> TRUE])]

\* Index of the first entry of suspensions with isActive, 0 when none
\* (this.suspensions.find(s => s.isActive)).
FindActive(susp) ==
    IF \E i \in 1..Len(susp) : susp[i].isActive
    THEN CHOOSE i \in 1..Len(susp) :
             susp[i].isActive /\ \A j \in 1..(i - 1) : ~susp[j].isActive
    ELSE 0

\* reactivate as it would be if it stamped the active suspension without
\* clearing its isActive flag.
reactivateKeepsActive(doc, userId, t) ==
    LET i == FindActive(doc.suspensions) IN
    [doc EXCEPT
        !.status = "active",
        !.suspensions =
            IF i = 0 THEN @
            ELSE [@ EXCEPT ![i] = [@ EXCEPT !.reactivatedAt = Some(t),
                                            !.reactivatedBy = Some(userId)]]]

\* reactivate(userId, notes): the writes of the method, on a document.
reactivate(doc, userId, t) ==
    LET i == FindActive(doc.suspensions) IN
    [doc EXCEPT
        !.status = "active",
        !.suspensions =
            IF i = 0 THEN @
            ELSE [@ EXCEPT ![i] = [@ EXCEPT !.isActive = FALSE,
                                            !.reactivatedAt = Some(t),
                                            !.reactivatedBy = Some(userId)]]]

\* changePlan as it would be if it recorded the change and kept the plan.
changePlanKeepsPlan(doc, newPlanId, userId) ==
    [doc EXCEPT
        !.planChanges = Append(@, [fromPlan |-> doc.plan,
                                   toPlan |-> newPlanId,
                                   approvedBy |-> userId])]

\* changePlan(newPlanId, userId, reason, effectiveDate): the writes of the
\* method, on a document.
changePlan(doc, newPlanId, userId) ==
    [doc EXCEPT
        !.planChanges = Append(@, [fromPlan |-> doc.plan,
                                   toPlan |-> newPlanId,
                                   approvedBy |-> userId]),
        !.plan = newPlanId]

\* methods.updateDataUsage on a loaded document, up to this.save().
updateDataUsage(svc, downloadGB, uploadGB) ==
    LET download == svc.dataUsage.download + downloadGB
        upload == svc.dataUsage.upload + uploadGB
    IN  [svc EXCEPT !.dataUsage =
            [download |-> download, upload |-> upload, total |-> download + upload]]

\* An amount as an exact fraction n / d (d a power of 100): the monthly cost
\* after percentage discounts.
Amount(n) == [n |-> n, d |-> 1]

\* cost * (1 - value / 100)
TimesPercentOff(c, value) == [n |-> c.n * (100 - value), d |-> c.d * 100]

\* cost - value
Minus(c, value) == [n |-> c.n - value * c.d, d |-> c.d]

\* Math.max(0, cost)
Max0(c) == IF c.n < 0 THEN Amount(0) ELSE c

\* The filter of getCurrentMonthlyCost: active, and now within the validity
\* window (a comparison with an undefined bound is false).
DiscountApplies(discount, t) ==
    /\ discount.isActive
    /\ IsSet(discount.validFrom) /\ t >= discount.validFrom[1]
    /\ IsSet(discount.validUntil) /\ t <= discount.validUntil[1]

RECURSIVE ApplyDiscounts(_, _)
ApplyDiscounts(baseCost, activeDiscounts) ==
    IF activeDiscounts = <<>> THEN baseCost
    ELSE LET discount == Head(activeDiscounts)
             next == IF discount.type = "percentage"
                     THEN TimesPercentOff(baseCost, discount.value)
                     ELSE IF discount.type = "fixed_amount"
                     THEN Minus(baseCost, discount.value)
                     ELSE baseCost
         IN  ApplyDiscounts(next, Tail(activeDiscounts))

\* getCurrentMonthlyCost as it would be without the clamp at zero.
getCurrentMonthlyCostUnclamped(doc, t) ==
    ApplyDiscounts(Amount(doc.monthlyFee),
                   SelectSeq(doc.discounts, LAMBDA d : DiscountApplies(d, t)))

\* getCurrentMonthlyCost(), evaluated at clock t.
getCurrentMonthlyCost(doc, t) ==
    Max0(ApplyDiscounts(Amount(doc.monthlyFee),
                        SelectSeq(doc.discounts, LAMBDA d : DiscountApplies(d, t))))

----------------------------------------------------------------------------
(* controllers/internetServiceController.js                                *)

\* Acting users: one account per role; req.user.id is the role's account.
RoleOf(actor) == actor

IdleSlot == [op |-> "idle", svc |-> 0, data |-> Undefined]

\* Creations that have read the document count and not yet inserted.
Creating == {c \in Slots : slots[c].op = "create"}

\* serviceData as createService builds it from the request body and the plan,
\* at clock t.
ServiceData(input, t) ==
    LET plan == PlanCatalog[input.plan]
        startDate == IF IsSet(input.startDate) THEN input.startDate[1] ELSE Today(t)
        duration == plan.contractDuration
    IN  [client |-> ClientId,
         plan |-> input.plan,
         serviceCode |-> Undefined,
         status |-> "pending_installation",
         completedDate |-> Undefined,
         ipAddress |-> Undefined,
         startDate |-> startDate,
         duration |-> duration,
         endDate |-> Some(setMonth(startDate, startDate.m + duration)),
         monthlyFee |-> plan.monthly,
         billingDay |-> IF IsSet(input.billingDay) THEN input.billingDay[1] ELSE 1,
         nextBillingDate |-> Undefined,
         planChanges |-> <<>>,
         suspensions |-> <<>>,
         dataUsage |-> [download |-> 0, upload |-> 0, total |-> 0]]

\* createService up to the insert: role and plan checks, serviceData, then
\* service.save() runs the pre('save') hooks: the service code from
\* countDocuments() and the next billing date.  The insert itself is sent to
\* the store once the hooks are done.
createService_count(c, actor, input) ==
    /\ slots[c].op = "idle"
    /\ UNCHANGED <<now, services, payments, balance, payRes, bill, cost, authVars>>
    /\ IF RoleOf(actor) \notin {"admin", "supervisor", "billing"}
       THEN /\ res' = 403
            /\ UNCHANGED slots
       ELSE IF ~PlanCatalog[input.plan].isActive
       THEN /\ res' = 400
            /\ UNCHANGED slots
       ELSE /\ LET count == Len(services)
                   doc == [ServiceData(input, now) EXCEPT
                               !.serviceCode = Some(FormatServiceCode(count))]
               IN  slots' = [slots EXCEPT ![c] =
                       [op |-> "create", svc |-> 0,
                        data |-> Some(PreSaveBilling(doc, TRUE, TRUE))]]
            /\ UNCHANGED res

\* The insert reaches the store: the unique index on serviceCode rejects a
\* duplicate with E11000, which the handler answers with 400.
createService_insert(c) ==
    /\ slots[c].op = "create"
    /\ UNCHANGED <<now, payments, balance, payRes, bill, cost, authVars>>
    /\ LET doc == slots[c].data[1] IN
       IF \E i \in 1..Len(services) : services[i].serviceCode = doc.serviceCode
       THEN /\ res' = 400
            /\ UNCHANGED services
       ELSE /\ services' = Append(services, doc)
            /\ res' = 201
    /\ slots' = [slots EXCEPT ![c] = IdleSlot]

\* InternetService.findById(id)
Found(id) == id \in 1..Len(services)

\* Suspensions of service id that passed the status check and are not saved.
Suspending(id) == {c \in Slots : slots[c].op = "suspend" /\ slots[c].svc = id}

ServiceFrame == UNCHANGED <<now, payments, balance, payRes, bill, cost, authVars>>

Reply(c, code) == res' = code

\* suspendService up to service.suspend(): role check, findById, status check.
suspendService_check(c, actor, id, reason) ==
    /\ slots[c].op = "idle"
    /\ ServiceFrame
    /\ UNCHANGED services
    /\ IF RoleOf(actor) \notin {"admin", "supervisor", "billing"}
       THEN Reply(c, 403) /\ UNCHANGED slots
       ELSE IF ~Found(id)
       THEN Reply(c, 404) /\ UNCHANGED slots
       ELSE IF services[id].status = "suspended"
       THEN Reply(c, 400) /\ UNCHANGED slots
       ELSE /\ Len(services[id].suspensions) + Cardinality(Suspending(id))
                   < MaxSuspensions
            /\ slots' = [slots EXCEPT ![c] =
                   [op |-> "suspend", svc |-> id, data |-> Some(reason)]]
            /\ UNCHANGED res

\* service.suspend() and its save(): the save writes the paths the method
\* modified, status and the pushed suspension, to the stored document.
suspendService_save(c) ==
    /\ slots[c].op = "suspend"
    /\ ServiceFrame
    /\ services' = [services EXCEPT ![slots[c].svc] =
                        suspend(@, slots[c].data[1])]
    /\ Reply(c, 200)
    /\ slots' = [slots EXCEPT ![c] = IdleSlot]

reactivateService(c, actor, id) ==
    /\ slots[c].op = "idle"
    /\ ServiceFrame
    /\ UNCHANGED slots
    /\ IF RoleOf(actor) \notin {"admin", "supervisor", "billing"}
       THEN Reply(c, 403) /\ UNCHANGED services
       ELSE IF ~Found(id)
       THEN Reply(c, 404) /\ UNCHANGED services
       ELSE IF services[id].status # "suspended"
       THEN Reply(c, 400) /\ UNCHANGED services
       ELSE /\ services' = [services EXCEPT ![id] = reactivate(@, actor, now)]
            /\ Reply(c, 200)

\* exports.changePlan as it would be without the check of the role.
changePlanRequestAnyRole(c, actor, id, newPlanId) ==
    /\ slots[c].op = "idle"
    /\ ServiceFrame
    /\ UNCHANGED slots
    /\ IF ~Found(id)
       THEN Reply(c, 404) /\ UNCHANGED services
       ELSE IF newPlanId \notin PlanIds \/ ~PlanCatalog[newPlanId].isActive
       THEN Reply(c, 400) /\ UNCHANGED services
       ELSE /\ Len(services[id].planChanges) < MaxPlanChanges
            /\ services' = [services EXCEPT ![id] =
                   [changePlan(@, newPlanId, actor) EXCEPT
                        !.monthlyFee = PlanCatalog[newPlanId].monthly]]
            /\ Reply(c, 200)

\* exports.changePlan: service.changePlan() saves, then billing.monthlyFee is
\* set to the new plan's price and the document is saved again.
changePlanRequest(c, actor, id, newPlanId) ==
    /\ slots[c].op = "idle"
    /\ ServiceFrame
    /\ UNCHANGED slots
    /\ IF RoleOf(actor) \notin {"admin", "supervisor", "billing"}
       THEN Reply(c, 403) /\ UNCHANGED services
       ELSE IF ~Found(id)
       THEN Reply(c, 404) /\ UNCHANGED services
       ELSE IF newPlanId \notin PlanIds \/ ~PlanCatalog[newPlanId].isActive
       THEN Reply(c, 400) /\ UNCHANGED services
       ELSE /\ Len(services[id].planChanges) < MaxPlanChanges
            /\ services' = [services EXCEPT ![id] =
                   [changePlan(@, newPlanId, actor) EXCEPT
                        !.monthlyFee = PlanCatalog[newPlanId].monthly]]
            /\ Reply(c, 200)

\* completeInstallation as it would be without the check of the status.
completeInstallationAnyStatus(c, actor, id, ipAddress) ==
    /\ slots[c].op = "idle"
    /\ ServiceFrame
    /\ UNCHANGED slots
    /\ IF RoleOf(actor) \notin {"admin", "technician", "supervisor"}
       THEN Reply(c, 403) /\ UNCHANGED services
       ELSE IF ~Found(id)
       THEN Reply(c, 404) /\ UNCHANGED services
       ELSE /\ services' = [services EXCEPT ![id] =
                   [@ EXCEPT !.completedDate = Some(now),
                             !.ipAddress = IF IsSet(ipAddress) THEN ipAddress ELSE @,
                             !.status = "active"]]
            /\ Reply(c, 200)

completeInstallation(c, actor, id, ipAddress) ==
    /\ slots[c].op = "idle"
    /\ ServiceFrame
    /\ UNCHANGED slots
    /\ IF RoleOf(actor) \notin {"admin", "technician", "supervisor"}
       THEN Reply(c, 403) /\ UNCHANGED services
       ELSE IF ~Found(id)
       THEN Reply(c, 404) /\ UNCHANGED services
       ELSE IF services[id].status # "pending_installation"
       THEN Reply(c, 400) /\ UNCHANGED services
       ELSE /\ services' = [services EXCEPT ![id] =
                   [@ EXCEPT !.completedDate = Some(now),
                             !.ipAddress = IF IsSet(ipAddress) THEN ipAddress ELSE @,
                             !.status = "active"]]
            /\ Reply(c, 200)

\* Keys of the request body that updateService lets the role set.
allowedUpdates(role) ==
    IF role \in {"admin", "supervisor"}
    THEN {"plan", "status", "connection", "contract", "billing",
          "installation", "discounts", "monitoring"}
    ELSE IF role = "billing" THEN {"billing", "discounts", "contract"}
    ELSE IF role = "technician" THEN {"installation", "connection", "monitoring"}
    ELSE {}

\* findByIdAndUpdate(serviceId, { $set: filteredUpdates }): every allowed key
\* present in the body replaces the stored value of that path; no pre('save')
\* hook runs.  updates is the body: status and plan optional values, contract
\* and billing optional sub-documents.
ApplySet(doc, updates, allowed) ==
    LET d1 == IF "status" \in allowed /\ IsSet(updates.status)
              THEN [doc EXCEPT !.status = updates.status[1]] ELSE doc
        d2 == IF "plan" \in allowed /\ IsSet(updates.plan)
              THEN [d1 EXCEPT !.plan = updates.plan[1]] ELSE d1
        d3 == IF "contract" \in allowed /\ IsSet(updates.contract)
              THEN [d2 EXCEPT !.startDate = updates.contract[1].startDate,
                              !.duration = updates.contract[1].duration,
                              !.endDate = updates.contract[1].endDate]
              ELSE d2
        d4 == IF "billing" \in allowed /\ IsSet(updates.billing)
              THEN [d3 EXCEPT !.monthlyFee = updates.billing[1].monthlyFee,
                              !.billingDay = updates.billing[1].billingDay,
                              !.nextBillingDate = updates.billing[1].nextBillingDate]
              ELSE d3
    IN  d4

updateService(c, actor, id, updates) ==
    /\ slots[c].op = "idle"
    /\ ServiceFrame
    /\ UNCHANGED slots
    /\ IF RoleOf(actor) \notin {"admin", "supervisor", "billing", "technician"}
       THEN Reply(c, 403) /\ UNCHANGED services
       ELSE IF ~Found(id)
       THEN Reply(c, 404) /\ UNCHANGED services
       ELSE /\ services' = [services EXCEPT ![id] =
                   ApplySet(@, updates, allowedUpdates(RoleOf(actor)))]
            /\ Reply(c, 200)

\* toggleServiceStatus: findByIdAndUpdate(id, { status }), admin only.
toggleServiceStatus(c, actor, id, status) ==
    /\ slots[c].op = "idle"
    /\ ServiceFrame
    /\ UNCHANGED slots
    /\ IF RoleOf(actor) # "admin"
       THEN Reply(c, 403) /\ UNCHANGED services
       ELSE IF ~Found(id)
       THEN Reply(c, 404) /\ UNCHANGED services
       ELSE /\ services' = [services EXCEPT ![id] = [@ EXCEPT !.status = status]]
            /\ Reply(c, 200)

\* The administrator's updateService of controllers/internetService:
\* findByIdAndUpdate(id, req.body), any path of the schema.  body carries an
\* optional serviceCode and an optional status; a serviceCode that another
\* document holds is refused by the unique index and the handler answers 500.
updateServiceAdmin(c, actor, id, body) ==
    /\ slots[c].op = "idle"
    /\ ServiceFrame
    /\ UNCHANGED slots
    /\ IF RoleOf(actor) # "admin"
       THEN Reply(c, 403) /\ UNCHANGED services
       ELSE IF ~Found(id)
       THEN Reply(c, 404) /\ UNCHANGED services
       ELSE IF /\ IsSet(body.serviceCode)
               /\ \E j \in 1..Len(services) :
                      j # id /\ services[j].serviceCode = body.serviceCode
       THEN Reply(c, 500) /\ UNCHANGED services
       ELSE /\ services' = [services EXCEPT ![id] =
                   [@ EXCEPT
                       !.serviceCode = IF IsSet(body.serviceCode)
                                       THEN body.serviceCode ELSE @,
                       !.status = IF IsSet(body.status) THEN body.status[1] ELSE @]]
            /\ Reply(c, 200)

----------------------------------------------------------------------------
(* models/Payment.js: hooks and instance methods                           *)

\* `REC${year}${String(count + 1).padStart(6, '0')}`
FormatReceiptNumber(year, count) ==
    [prefix |-> "REC", year |-> year, digits |-> padStart(Digits(count + 1), 6, 0)]

\* A JavaScript number that may be NaN: <<>> is NaN, <<n>> the number n.
NaN == <<>>

\* a * b where a may be undefined: undefined * b is NaN.
Times(a, b) == IF IsSet(a) THEN Some(a[1] * b) ELSE NaN

\* Math.ceil(a / b) for a >= 0, b > 0.
Ceil(a, b) == (a + b - 1) \div b

RECURSIVE SumTaxes(_)
SumTaxes(taxes) ==
    IF taxes = <<>> THEN 0 ELSE Head(taxes).amount[1] + SumTaxes(Tail(taxes))

\* pre('save') as it would be if the taxable amount ignored the discounts.
PreSaveTotalsNoDiscount(doc) ==
    LET subtotal == SumSeq(doc.services) + SumSeq(doc.additionalCharges)
        totalDiscounts == SumSeq(doc.discounts)
        totalTaxes == SumTaxes(doc.taxes)
    IN  [doc EXCEPT
            !.subtotal = subtotal,
            !.totalDiscounts = totalDiscounts,
            !.taxableAmount = subtotal,
            !.totalTaxes = totalTaxes,
            !.totalAmount = subtotal + totalTaxes + doc.latePayment.lateFeesApplied]

\* pre('save'), first half: the four totals from the line items.
PreSaveTotals(doc) ==
    LET subtotal == SumSeq(doc.services) + SumSeq(doc.additionalCharges)
        totalDiscounts == SumSeq(doc.discounts)
        taxableAmount == subtotal - totalDiscounts
        totalTaxes == SumTaxes(doc.taxes)
    IN  [doc EXCEPT
            !.subtotal = subtotal,
            !.totalDiscounts = totalDiscounts,
            !.taxableAmount = taxableAmount,
            !.totalTaxes = totalTaxes,
            !.totalAmount = taxableAmount + totalTaxes
                                + doc.latePayment.lateFeesApplied]

\* The late check as it would be if it rounded the days down.
PreSaveLateFloor(doc) ==
    IF doc.dueDate < doc.paymentDate
    THEN [doc EXCEPT
            !.latePayment.isLate = TRUE,
            !.latePayment.daysLate = (doc.paymentDate - doc.dueDate) \div TicksPerDay]
    ELSE doc

\* pre('save'), second half: the late-payment flag and the days late.
PreSaveLate(doc) ==
    IF doc.dueDate < doc.paymentDate
    THEN [doc EXCEPT
            !.latePayment.isLate = TRUE,
            !.latePayment.daysLate = Ceil(doc.paymentDate - doc.dueDate, TicksPerDay)]
    ELSE doc

\* The schema's validators on the paths the handlers and hooks write:
\* taxes[].amount is a number >= 0; subtotal, totalDiscounts, taxableAmount,
\* totalTaxes and totalAmount are >= 0.
PaymentValid(doc) ==
    /\ \A i \in 1..Len(doc.taxes) :
           IsSet(doc.taxes[i].amount) /\ doc.taxes[i].amount[1] >= 0
    /\ doc.subtotal >= 0
    /\ doc.totalDiscounts >= 0
    /\ doc.taxableAmount >= 0
    /\ doc.totalTaxes >= 0
    /\ doc.totalAmount >= 0

\* What save() stores: the document after the pre('save') hook.  With a tax
\* amount that is not a number the sums are not numbers either and the
\* document is rejected whatever they are; the model leaves them uncomputed.
Saved(doc) ==
    IF \A i \in 1..Len(doc.taxes) : IsSet(doc.taxes[i].amount)
    THEN PreSaveLate(PreSaveTotals(doc))
    ELSE doc

SaveOk(doc) == PaymentValid(Saved(doc))

\* addPartialPayment as it would be if an exact total did not complete.
addPartialPaymentStrict(doc, amount) ==
    LET partials == Append(doc.partialPayments, amount)
        totalPaid == SumSeq(partials)
    IN  [doc EXCEPT
            !.partialPayments = partials,
            !.status = IF totalPaid > doc.totalAmount THEN "completed" ELSE "partial"]

\* addPartialPayment(amount, method, transactionId, notes): the writes of the
\* method, before its save().
addPartialPayment(doc, amount) ==
    LET partials == Append(doc.partialPayments, amount)
        totalPaid == SumSeq(partials)
    IN  [doc EXCEPT
            !.partialPayments = partials,
            !.status = IF totalPaid >= doc.totalAmount THEN "completed" ELSE "partial"]

\* processRefund as it would be if it did not mark the refund as done.
processRefundUnmarked(doc, amount) ==
    [doc EXCEPT
        !.refund = [isRefunded |-> FALSE, refundAmount |-> Some(amount)],
        !.status = "refunded"]

\* processRefund(amount, reason, refundedBy): the writes of the method.
processRefund(doc, amount) ==
    [doc EXCEPT
        !.refund = [isRefunded |-> TRUE, refundAmount |-> Some(amount)],
        !.status = "refunded"]

----------------------------------------------------------------------------
(* controllers/paymentController.js                                        *)

PaymentFrame == UNCHANGED <<now, services, slots, res, bill, cost, authVars>>

PaymentFound(id) == id \in 1..Len(payments)

ThirtyDays == 30 * TicksPerDay

\* paymentData as createPayment builds it; the document's defaults fill the
\* rest.  taxRate is process.env.TAX_RATE || 0.12, in percent.
\* paymentData.taxableAmount is not set when the tax line is computed.
PaymentData(input, taxRate, t) ==
    [client |-> input.client,
     receiptNumber |-> Undefined,
     createdAt |-> t,
     services |-> input.services,
     additionalCharges |-> input.additionalCharges,
     discounts |-> input.discounts,
     taxes |-> IF taxRate > 0
               THEN <<[name |-> "IVA", rate |-> taxRate,
                       amount |-> Times(Undefined, taxRate)]>>
               ELSE <<>>,
     subtotal |-> 0,
     totalDiscounts |-> 0,
     taxableAmount |-> 0,
     totalTaxes |-> 0,
     totalAmount |-> 0,
     paymentDate |-> t,
     dueDate |-> IF IsSet(input.dueDate) THEN input.dueDate[1] ELSE t + ThirtyDays,
     status |-> "pending",
     partialPayments |-> <<>>,
     latePayment |-> [isLate |-> FALSE, daysLate |-> 0, lateFeesApplied |-> 0],
     refund |-> [isRefunded |-> FALSE, refundAmount |-> Undefined]]

\* The count as it would be without the createdAt filter.
CountAllYears(year) == Len(payments)

\* countDocuments({ createdAt: { $gte: Jan 1 of year, $lt: Jan 1 of year + 1 } })
CountInYear(year) ==
    Cardinality({i \in 1..Len(payments) : Today(payments[i].createdAt).y = year})

\* pre('save') of a new document without receiptNumber.
PreSaveReceiptNumber(doc, t) ==
    [doc EXCEPT !.receiptNumber =
        Some(FormatReceiptNumber(Today(t).y, CountInYear(Today(t).y)))]

\* The lookup as it would be without the filter on the client.
ExistingServicesAnyClient(refs, client) ==
    {s \in DOMAIN ServiceOwners : \E i \in 1..Len(refs) : refs[i] = s}

\* InternetService.find({ _id: { $in: serviceIds }, client }): the services
\* among those referenced that exist and belong to the client.
ExistingServices(refs, client) ==
    {s \in DOMAIN ServiceOwners :
        (\E i \in 1..Len(refs) : refs[i] = s) /\ ServiceOwners[s] = client}

createPayment(actor, input, taxRate) ==
    /\ PaymentFrame
    /\ IF RoleOf(actor) \notin {"admin", "supervisor", "billing"}
       THEN payRes' = 403 /\ UNCHANGED <<payments, balance>>
       ELSE IF input.client \notin ClientUsers
       THEN payRes' = 400 /\ UNCHANGED <<payments, balance>>
       ELSE IF Cardinality(ExistingServices(input.refs, input.client)) # Len(input.refs)
       THEN payRes' = 400 /\ UNCHANGED <<payments, balance>>
       ELSE LET doc == PreSaveReceiptNumber(PaymentData(input, taxRate, now), now) IN
            IF ~SaveOk(doc)
            THEN payRes' = 500 /\ UNCHANGED <<payments, balance>>
            ELSE /\ payments' = Append(payments, Saved(doc))
                 /\ balance' = balance + Saved(doc).totalAmount
                 /\ payRes' = 201

\* exports.processPayment: a full payment stamps paymentDate, a smaller amount
\* goes through addPartialPayment (which saves); then the document is saved
\* and the client's balance reduced by the amount paid.
processPayment(actor, id, amount) ==
    /\ PaymentFrame
    /\ IF RoleOf(actor) \notin {"admin", "supervisor", "billing"}
       THEN payRes' = 403 /\ UNCHANGED <<payments, balance>>
       ELSE IF ~PaymentFound(id)
       THEN payRes' = 404 /\ UNCHANGED <<payments, balance>>
       ELSE IF payments[id].status = "completed"
       THEN payRes' = 400 /\ UNCHANGED <<payments, balance>>
       ELSE LET payment == payments[id]
                paidAmount == IF IsSet(amount) /\ amount[1] # 0
                              THEN amount[1] ELSE payment.totalAmount
                doc == IF paidAmount >= payment.totalAmount
                       THEN [payment EXCEPT !.status = "completed",
                                            !.paymentDate = now]
                       ELSE Saved(addPartialPayment(payment, paidAmount))
            IN  /\ payments' = [payments EXCEPT ![id] = Saved(doc)]
                /\ balance' = balance - paidAmount
                /\ payRes' = 200

addPartialPaymentRequest(actor, id, amount) ==
    /\ PaymentFrame
    /\ UNCHANGED balance
    /\ IF RoleOf(actor) \notin {"admin", "supervisor", "billing"}
       THEN payRes' = 403 /\ UNCHANGED payments
       ELSE IF ~PaymentFound(id)
       THEN payRes' = 404 /\ UNCHANGED payments
       ELSE IF payments[id].status = "completed"
       THEN payRes' = 400 /\ UNCHANGED payments
       ELSE /\ payments' = [payments EXCEPT ![id] =
                   Saved(addPartialPayment(@, amount))]
            /\ payRes' = 200

processRefundRequest(actor, id, amount) ==
    /\ PaymentFrame
    /\ IF RoleOf(actor) \notin {"admin", "supervisor"}
       THEN payRes' = 403 /\ UNCHANGED <<payments, balance>>
       ELSE IF ~PaymentFound(id)
       THEN payRes' = 404 /\ UNCHANGED <<payments, balance>>
       ELSE IF payments[id].status # "completed"
       THEN payRes' = 400 /\ UNCHANGED <<payments, balance>>
       ELSE IF payments[id].refund.isRefunded
       THEN payRes' = 400 /\ UNCHANGED <<payments, balance>>
       ELSE LET refundAmount == IF IsSet(amount) /\ amount[1] # 0
                                THEN amount[1] ELSE payments[id].totalAmount
                doc == Saved(processRefund(payments[id], refundAmount))
            IN  /\ payments' = [payments EXCEPT ![id] = doc]
                /\ balance' = balance + doc.refund.refundAmount[1]
                /\ payRes' = 200

\* A request that records usage: it loads the service document ...
usage_load(c, id, downloadGB, uploadGB) ==
    /\ slots[c].op = "idle"
    /\ ServiceFrame
    /\ UNCHANGED services
    /\ IF ~Found(id)
       THEN Reply(c, 404) /\ UNCHANGED slots
       ELSE /\ slots' = [slots EXCEPT ![c] =
                   [op |-> "usage", svc |-> id,
                    data |-> Some([doc |-> services[id],
                                   downloadGB |-> downloadGB,
                                   uploadGB |-> uploadGB])]]
            /\ UNCHANGED res

\* ... and calls updateDataUsage on it: this.save() sends the paths whose
\* value differs from the loaded one, each with its new value.
SavePath(stored, loaded, new) == IF new # loaded THEN new ELSE stored

usage_save(c) ==
    /\ slots[c].op = "usage"
    /\ ServiceFrame
    /\ LET id == slots[c].svc
           loaded == slots[c].data[1].doc.dataUsage
           new == updateDataUsage(slots[c].data[1].doc, slots[c].data[1].downloadGB,
                                  slots[c].data[1].uploadGB).dataUsage
           stored == services[id].dataUsage
       IN  services' = [services EXCEPT ![id].dataUsage =
               [download |-> SavePath(stored.download, loaded.download, new.download),
                upload |-> SavePath(stored.upload, loaded.upload, new.upload),
                total |-> SavePath(stored.total, loaded.total, new.total)]]
    /\ Reply(c, 200)
    /\ slots' = [slots EXCEPT ![c] = IdleSlot]

----------------------------------------------------------------------------
(* routes/payments.js with middleware/auth.js: the routes in front of the  *)
(* handlers                                                                *)

\* requireRole(allowedRoles): next() when the role of req.user is allowed,
\* 403 otherwise.
requireRole(allowedRoles, role) == role \in allowedRoles

\* POST /api/payments
postPayment(actor, input, taxRate) ==
    IF requireRole({"admin", "supervisor", "billing"}, RoleOf(actor))
    THEN createPayment(actor, input, taxRate)
    ELSE /\ PaymentFrame
         /\ payRes' = 403
         /\ UNCHANGED <<payments, balance>>

\* POST /api/payments/:id/refund
postRefund(actor, id, amount) ==
    IF requireRole({"admin", "supervisor"}, RoleOf(actor))
    THEN processRefundRequest(actor, id, amount)
    ELSE /\ PaymentFrame
         /\ payRes' = 403
         /\ UNCHANGED <<payments, balance>>

\* ObjectIds as the requests carry them: the id of a user and the id of a
\* payment are ids of different collections and are never equal.
UserObjectId(userId) == <<"User", userId>>
PaymentObjectId(id) == <<"Payment", id>>

\* requireOwnership(resourceField) on a route with :id: whether next() is
\* called.  For a client resourceId is req.params.id, compared with
\* req.user.id.
requireOwnership(role, userId, paramsId) ==
    IF role \in {"admin", "supervisor"} THEN TRUE
    ELSE IF role = "client" THEN paramsId = UserObjectId(userId)
    ELSE TRUE

\* exports.getPayment: the status it answers.
getPayment(role, userId, id) ==
    IF ~PaymentFound(id) THEN 404
    ELSE IF role = "client" /\ payments[id].client # userId THEN 403
    ELSE 200

\* GET /api/payments/:id: [auth, validatePaymentId, requireOwnership('client')]
\* and then getPayment, for an authenticated user.
getPaymentRoute(role, userId, id) ==
    /\ PaymentFrame
    /\ UNCHANGED <<payments, balance>>
    /\ payRes' = IF requireOwnership(role, userId, PaymentObjectId(id))
                 THEN getPayment(role, userId, id)
                 ELSE 403

----------------------------------------------------------------------------
(* middleware/authMiddleware.js: auth with its user cache, optionalAuth    *)

\* const CACHE_TTL = 5 * 60 * 1000, in units of the clock.
CACHE_TTL == 2

\* The accounts of the store, and the id in a token whose user is not there.
UserIds == {1}
UnknownUser == 2
UserStatuses == {"active", "inactive", "suspended"}

\* What a request presents: no Authorization header, a token jwt.verify
\* refuses (bad signature or malformed, expired), a token without user.id, a
\* valid token of a user id.
Tokens ==
    [kind : {"none", "invalid", "expired", "nouser"}, user : {0}]
        \cup [kind : {"valid"}, user : UserIds \cup {UnknownUser}]

NoRequest == [status |-> 0, next |-> 0, user |-> "unset", userStatus |-> "", source |-> ""]

InitAuth ==
    /\ users = [u \in UserIds |-> [status |-> "active", locked |-> FALSE]]
    /\ userCache = [u \in UserIds \cup {UnknownUser} |-> Undefined]
    /\ req = NoRequest
    /\ clock = 0

AuthFrame ==
    UNCHANGED <<now, services, slots, res, payments, balance, payRes, bill, cost>>

\* if (cachedUser && (Date.now() - cachedUser.timestamp < CACHE_TTL)), as it
\* would be with <=.
CacheHitUpToTtl(cachedUser, t) ==
    IsSet(cachedUser) /\ t - cachedUser[1].timestamp <= CACHE_TTL

\* if (cachedUser && (Date.now() - cachedUser.timestamp < CACHE_TTL))
CacheHit(cachedUser, t) ==
    IsSet(cachedUser) /\ t - cachedUser[1].timestamp < CACHE_TTL

\* A response sent without next().
Rejected(status, cache) ==
    [status |-> status, next |-> 0, user |-> "unset", userStatus |-> "",
     source |-> "", cache |-> cache]

\* Steps 5 to 10 of auth on the user found: status checks, the lock check,
\* req.user, next().  A cached user is the plain object of toObject() and has
\* no isLocked method; a document of the store has the method of the User
\* model, read without lockUntil, and may or may not report the lock.
AdmitOutcomes(userStatus, lockReports, source, cache) ==
    IF userStatus \in {"inactive", "suspended"}
    THEN {Rejected(403, cache)}
    ELSE {IF locked THEN Rejected(423, cache)
          ELSE [status |-> 0, next |-> 1, user |-> "set", userStatus |-> userStatus,
                source |-> source, cache |-> cache] : locked \in lockReports}

\* auth: the outcomes for a token; each carries the cache it leaves.
AuthOutcomes(token) ==
    IF token.kind = "none" THEN {Rejected(401, userCache)}
    ELSE IF token.kind \in {"invalid", "expired"} THEN {Rejected(401, userCache)}
    ELSE IF token.kind = "nouser" THEN {Rejected(401, userCache)}
    ELSE LET userId == token.user
             cachedUser == userCache[userId]
         IN  IF CacheHit(cachedUser, clock)
             THEN AdmitOutcomes(cachedUser[1].user.status, {FALSE}, "cache", userCache)
             ELSE IF userId \notin UserIds
             THEN {Rejected(401, userCache)}
             ELSE AdmitOutcomes(users[userId].status,
                                IF users[userId].locked THEN BOOLEAN ELSE {FALSE},
                                "store",
                                [userCache EXCEPT ![userId] =
                                    Some([user |-> [status |-> users[userId].status],
                                          timestamp |-> clock])])

Handled(o) ==
    /\ req' = [status |-> o.status, next |-> o.next, user |-> o.user,
               userStatus |-> o.userStatus, source |-> o.source]
    /\ userCache' = o.cache

auth(token) ==
    /\ AuthFrame
    /\ UNCHANGED <<users, clock>>
    /\ \E o \in AuthOutcomes(token) : Handled(o)

\* optionalAuth: without a header req.user = null and next(); with one,
\* await auth(req, res, next), which answers by itself and does not throw.
optionalAuth(token) ==
    /\ AuthFrame
    /\ UNCHANGED <<users, clock>>
    /\ IF token.kind = "none"
       THEN /\ req' = [NoRequest EXCEPT !.next = 1, !.user = "null"]
            /\ UNCHANGED userCache
       ELSE \E o \in AuthOutcomes(token) : Handled(o)

\* setInterval(..., CACHE_TTL): entries older than CACHE_TTL are deleted.
sweep ==
    /\ AuthFrame
    /\ UNCHANGED <<users, req, clock>>
    /\ userCache' = [k \in DOMAIN userCache |->
                        IF IsSet(userCache[k]) /\ clock - userCache[k][1].timestamp > CACHE_TTL
                        THEN Undefined ELSE userCache[k]]

\* process.on('SIGINT' / 'SIGTERM'): userCache.clear()
signal ==
    /\ AuthFrame
    /\ UNCHANGED <<users, req, clock>>
    /\ userCache' = [k \in DOMAIN userCache |-> Undefined]

\* exports.toggleUserStatus by an admin or supervisor: user.status = status.
toggleUserStatus(userId, status) ==
    /\ AuthFrame
    /\ UNCHANGED <<userCache, req, clock>>
    /\ users' = [users EXCEPT ![userId].status = status]

\* exports.login with a wrong password: incLoginAttempts() may lock the
\* account; with the right one the lock is lifted.
loginAttempt(userId, locked) ==
    /\ AuthFrame
    /\ UNCHANGED <<userCache, req, clock>>
    /\ users' = [users EXCEPT ![userId].locked = locked]

\* Time passing between requests.
ClockTick ==
    /\ AuthFrame
    /\ UNCHANGED <<users, userCache, req>>
    /\ clock' = clock + 1

----------------------------------------------------------------------------
(* The clock                                                               *)

Tick ==
    /\ now < MaxTime
    /\ now' = now + 1
    /\ UNCHANGED <<services, slots, res, payments, balance, payRes, bill, cost, authVars>>

----------------------------------------------------------------------------
(* Initial state: empty collections, no request in flight                  *)

Date(y, m, d) == [y |-> y, m |-> m, d |-> d]

Init ==
    /\ now = 0
    /\ InitAuth
    /\ services = <<>>
    /\ slots = [c \in Slots |-> IdleSlot]
    /\ res = 0
    /\ payments = <<>>
    /\ balance = 0
    /\ payRes = 0
    /\ bill = [startDate |-> Date(2024, 3, 20), billingDay |-> 15,
               nextBillingDate |-> Undefined]
    /\ cost = [monthlyFee |-> 0, discounts |-> <<>>, result |-> Undefined]

----------------------------------------------------------------------------
(* Service numbering: creations whose count and insert steps interleave    *)

CreateInputs ==
    [plan : PlanIds, startDate : {Undefined}, billingDay : {Undefined, Some(15)}]

NextNumbering ==
    \/ \E c \in Slots, actor \in Roles, input \in CreateInputs :
           /\ Len(services) + Cardinality(Creating) < MaxCreations
           /\ createService_count(c, actor, input)
    \/ \E c \in Slots : createService_insert(c)

SpecNumbering == Init /\ [][NextNumbering]_vars

----------------------------------------------------------------------------
(* Service lifecycle: status and the suspension history                    *)

ServiceIds == 1..MaxServices

LifecycleInputs == [plan : {1}, startDate : {Undefined}, billingDay : {Undefined}]

StatusUpdates ==
    [status : {Some(st) : st \in StatusEnum}, plan : {Undefined},
     contract : {Undefined}, billing : {Undefined}]

NextLifecycle ==
    \/ \E c \in Slots, actor \in Roles, input \in LifecycleInputs :
           /\ Len(services) + Cardinality(Creating) < MaxServices
           /\ createService_count(c, actor, input)
    \/ \E c \in Slots : createService_insert(c)
    \/ \E c \in Slots, actor \in Roles, id \in ServiceIds :
           completeInstallation(c, actor, id, Undefined)
    \/ \E c \in Slots, actor \in Roles, id \in ServiceIds :
           suspendService_check(c, actor, id, "non_payment")
    \/ \E c \in Slots : suspendService_save(c)
    \/ \E c \in Slots, actor \in Roles, id \in ServiceIds :
           reactivateService(c, actor, id)
    \/ \E c \in Slots, actor \in Roles, id \in ServiceIds, p \in PlanIds :
           changePlanRequest(c, actor, id, p)
    \/ \E c \in Slots, actor \in Roles, id \in ServiceIds, u \in StatusUpdates :
           updateService(c, actor, id, u)
    \/ \E c \in Slots, actor \in Roles, id \in ServiceIds, st \in StatusEnum :
           toggleServiceStatus(c, actor, id, st)

SpecLifecycle == Init /\ [][NextLifecycle]_vars

----------------------------------------------------------------------------
(* Suspension and reactivation alone: installation, suspend, reactivate    *)

\* Requests arrive one at a time on a single connection, from an
\* administrator, a technician or a client.
SuspendActors == {"admin", "technician", "client"}

NextSuspend ==
    \/ \E actor \in SuspendActors, input \in LifecycleInputs :
           /\ Len(services) + Cardinality(Creating) < MaxServices
           /\ createService_count(1, actor, input)
    \/ createService_insert(1)
    \/ \E actor \in SuspendActors, id \in ServiceIds :
           completeInstallation(1, actor, id, Undefined)
    \/ \E actor \in SuspendActors, id \in ServiceIds :
           suspendService_check(1, actor, id, "non_payment")
    \/ suspendService_save(1)
    \/ \E actor \in SuspendActors, id \in ServiceIds :
           reactivateService(1, actor, id)
    \/ Tick

SpecSuspend == Init /\ [][NextSuspend]_vars

----------------------------------------------------------------------------
(* Contract and billing updates of a created service                       *)

UpdateActors == {"admin", "billing", "technician", "client"}

BillingInputs ==
    [plan : {1, 2}, startDate : {Undefined, Some(Date(2024, 1, 31))},
     billingDay : {Undefined, Some(15)}]

\* Bodies of updateService for service id that carry a contract or a billing
\* sub-document: a new start date or billing day; the other fields of the
\* sub-document are sent back as stored, or, for the dates the hooks derive,
\* left out.
BillingUpdates(id) ==
    LET doc == services[id] IN
    {[status |-> Undefined, plan |-> Undefined,
      contract |-> Some([startDate |-> sd, duration |-> doc.duration, endDate |-> ed]),
      billing |-> Undefined] :
        sd \in {Date(2024, 3, 20), Date(2024, 5, 5)}, ed \in {Undefined, doc.endDate}}
    \cup
    {[status |-> Undefined, plan |-> Undefined, contract |-> Undefined,
      billing |-> Some([monthlyFee |-> doc.monthlyFee, billingDay |-> bd,
                        nextBillingDate |-> nb])] :
        bd \in {10, 20}, nb \in {Undefined, doc.nextBillingDate}}

NextUpdate ==
    \/ \E actor \in UpdateActors, input \in BillingInputs :
           /\ Len(services) + Cardinality(Creating) < MaxServices
           /\ createService_count(1, actor, input)
    \/ createService_insert(1)
    \/ \E actor \in UpdateActors, id \in ServiceIds :
           /\ Found(id)
           /\ \E u \in BillingUpdates(id) : updateService(1, actor, id, u)
    \/ \E actor \in UpdateActors, id \in ServiceIds, p \in PlanIds :
           changePlanRequest(1, actor, id, p)

SpecUpdate == Init /\ [][NextUpdate]_vars

----------------------------------------------------------------------------
(* Claims                                                                  *)

ActiveSuspensions(doc) ==
    {i \in 1..Len(doc.suspensions) : doc.suspensions[i].isActive}

\* C2: the service codes generated by creations whose count and insert steps
\* interleave are pairwise distinct (persisted or still in flight) and the
\* persisted ones increase strictly in creation order.
C2_GeneratedCodesUniqueIncreasing ==
    /\ \A i, j \in 1..Len(services) :
           i < j => CodeNumber(services[i].serviceCode[1])
                        < CodeNumber(services[j].serviceCode[1])
    /\ \A c \in Creating : \A i \in 1..Len(services) :
           slots[c].data[1].serviceCode # services[i].serviceCode
    /\ \A c, d \in Creating :
           c # d => slots[c].data[1].serviceCode # slots[d].data[1].serviceCode

\* C3: in every reachable state every service has at most one suspension
\* entry with isActive = true.
C3_AtMostOneActiveSuspension ==
    \A id \in 1..Len(services) : Cardinality(ActiveSuspensions(services[id])) <= 1

\* C4: in every reachable state a service has status 'suspended' if and only
\* if one of its suspension entries has isActive = true.
C4_SuspendedIffActiveSuspension ==
    \A id \in 1..Len(services) :
        services[id].status = "suspended" <=> ActiveSuspensions(services[id]) # {}

Fresh(doc) == doc.status = "active" /\ doc.suspensions = <<>>

JustSuspended(doc) ==
    /\ doc.status = "suspended"
    /\ Len(doc.suspensions) = 1
    /\ doc.suspensions[1].isActive
    /\ ~IsSet(doc.suspensions[1].reactivatedAt)

Reactivated(doc) ==
    /\ doc.status = "active"
    /\ Len(doc.suspensions) = 1
    /\ ~doc.suspensions[1].isActive
    /\ IsSet(doc.suspensions[1].reactivatedAt)
    /\ IsSet(doc.suspensions[1].reactivatedBy)

\* C5: on a service with status 'active' and no suspensions, suspend leaves
\* one active suspension and status 'suspended', and reactivate right after
\* leaves status 'active' and exactly one suspension entry, whose isActive is
\* false and whose reactivatedAt and reactivatedBy are set.
C5_SuspendThenReactivate ==
    [][\A id \in 1..Len(services) :
          /\ (/\ Fresh(services[id])
              /\ \E c \in Slots : slots[c].svc = id /\ suspendService_save(c))
                 => JustSuspended(services'[id])
          /\ (/\ JustSuspended(services[id])
              /\ \E c \in Slots, actor \in Roles :
                     reactivateService(c, actor, id) /\ res' = 200)
                 => Reactivated(services'[id])]_vars

C5_Witness == \E id \in 1..Len(services) : Reactivated(services[id])

----------------------------------------------------------------------------
(* The payment ledger: receipts of one client                              *)

PaymentIds == 1..MaxPayments

\* process.env.TAX_RATE || 0.12, in percent: TAX_RATE=0 or the default.
TaxRates == {0, 12}

PartialsBound(id) ==
    PaymentFound(id) => Len(payments[id].partialPayments) < MaxPartials

NoAmount == {Undefined}

\* The ledger as a next-state relation over the sets the requests draw
\* their inputs from.
Ledger(actors, inputs, paid, partial, refunded) ==
    \/ \E actor \in actors, input \in inputs, taxRate \in TaxRates :
           /\ Len(payments) < MaxPayments
           /\ createPayment(actor, input, taxRate)
    \/ \E actor \in actors, id \in PaymentIds, amount \in paid :
           /\ PartialsBound(id)
           /\ processPayment(actor, id, amount)
    \/ \E actor \in actors, id \in PaymentIds, amount \in partial :
           /\ PartialsBound(id)
           /\ addPartialPaymentRequest(actor, id, amount)
    \/ \E actor \in actors, id \in PaymentIds, amount \in refunded :
           processRefundRequest(actor, id, amount)

\* Receipts that differ in their line items, paid in full or by instalments
\* of 60 and refunded, all at one instant.
TotalsInputs ==
    [services : {<<100>>}, additionalCharges : {<<>>, <<20>>},
     discounts : {<<>>, <<10>>, <<130>>}, dueDate : {Undefined},
     client : {ClientId}, refs : {<<1>>}]

NextTotals ==
    Ledger({"admin", "client"}, TotalsInputs, NoAmount, {60}, NoAmount)

SpecTotals == Init /\ [][NextTotals]_vars

\* Receipts that differ in their due date, paid in full as time passes.
LateInputs ==
    [services : {<<100>>}, additionalCharges : {<<>>},
     discounts : {<<>>}, dueDate : {Undefined, Some(1)},
     client : {ClientId}, refs : {<<1>>}]

NextLate ==
    \/ Ledger({"admin", "client"}, LateInputs, NoAmount, {60}, NoAmount)
    \/ Tick

SpecLate == Init /\ [][NextLate]_vars

\* One kind of receipt, of 100, paid in full or by instalments of 50 and 60
\* and refunded.
PartialInputs ==
    [services : {<<100>>}, additionalCharges : {<<>>},
     discounts : {<<>>}, dueDate : {Undefined},
     client : {ClientId}, refs : {<<1>>}]

PaidAmounts == {50, 60}

NextPartial ==
    Ledger({"admin", "client"}, PartialInputs, {Undefined, Some(50)}, PaidAmounts,
           NoAmount)

SpecPartial == Init /\ [][NextPartial]_vars

TotalsHold(p) ==
    /\ p.subtotal = SumSeq(p.services) + SumSeq(p.additionalCharges)
    /\ p.totalDiscounts = SumSeq(p.discounts)
    /\ p.totalTaxes = SumTaxes(p.taxes)
    /\ p.taxableAmount = p.subtotal - p.totalDiscounts
    /\ p.totalAmount = p.taxableAmount + p.totalTaxes + p.latePayment.lateFeesApplied

\* C1: every stored Payment has totalAmount = taxableAmount + totalTaxes +
\* latePayment.lateFeesApplied and taxableAmount = subtotal - totalDiscounts,
\* with subtotal, totalDiscounts and totalTaxes the sums of their line items,
\* after creation and after every later save.
C1_TotalsRecomputed == \A id \in 1..Len(payments) : TotalsHold(payments[id])

C1_Witness ==
    \E id \in 1..Len(payments) :
        /\ payments[id].totalDiscounts > 0
        /\ payments[id].subtotal > payments[id].taxableAmount
        /\ payments[id].status = "refunded"
        /\ payments[id].partialPayments # <<>>

\* C6: an accepted addPartialPayment on a pending or partial Payment appends
\* one partial-payment record and leaves status 'completed' when the partial
\* payments sum to at least totalAmount and 'partial' otherwise.
C6_PartialPaymentStatus ==
    [][\A id \in 1..Len(payments), amount \in PaidAmounts :
          (/\ payments[id].status \in {"pending", "partial"}
           /\ \E actor \in Roles : addPartialPaymentRequest(actor, id, amount)
           /\ payRes' = 200)
          => /\ payments'[id].partialPayments
                    = Append(payments[id].partialPayments, amount)
             /\ payments'[id].status =
                    IF SumSeq(payments'[id].partialPayments) >= payments[id].totalAmount
                    THEN "completed" ELSE "partial"
             /\ (payments[id].status = "pending"
                   /\ amount < payments[id].totalAmount)
                    => payments'[id].status = "partial"]_vars

\* Two partial payments, summing to exactly totalAmount, completed a Payment.
C6_Witness ==
    \E id \in 1..Len(payments) :
        /\ payments[id].status = "completed"
        /\ Len(payments[id].partialPayments) = 2
        /\ SumSeq(payments[id].partialPayments) = payments[id].totalAmount

----------------------------------------------------------------------------
(* getCurrentMonthlyCost over service documents with stacked discounts     *)

\* Validity windows around the instant of evaluation, tick 1.
Windows ==
    {[validFrom |-> Undefined, validUntil |-> Undefined],
     [validFrom |-> Some(0), validUntil |-> Some(2)],
     [validFrom |-> Some(1), validUntil |-> Some(1)],
     [validFrom |-> Some(2), validUntil |-> Some(2)],
     [validFrom |-> Some(0), validUntil |-> Some(0)]}

Kinds ==
    {[type |-> "percentage", value |-> 20], [type |-> "percentage", value |-> 150],
     [type |-> "fixed_amount", value |-> 5], [type |-> "fixed_amount", value |-> 60],
     [type |-> "free_months", value |-> 1]}

Discounts ==
    {[type |-> k.type, value |-> k.value, validFrom |-> w.validFrom,
      validUntil |-> w.validUntil, isActive |-> a] :
        k \in Kinds, w \in Windows, a \in BOOLEAN}

DiscountLists == UNION {[1..n -> Discounts] : n \in 0..MaxDiscounts}

InitCost ==
    /\ now = 1
    /\ InitAuth
    /\ services = <<>>
    /\ slots = [c \in Slots |-> IdleSlot]
    /\ res = 0
    /\ payments = <<>>
    /\ balance = 0
    /\ payRes = 0
    /\ bill = [startDate |-> Date(2024, 3, 20), billingDay |-> 15,
               nextBillingDate |-> Undefined]
    /\ cost \in [monthlyFee : {50}, discounts : DiscountLists, result : {Undefined}]

EvalCost ==
    /\ ~IsSet(cost.result)
    /\ cost' = [cost EXCEPT !.result = Some(getCurrentMonthlyCost(cost, now))]
    /\ UNCHANGED <<now, services, slots, res, payments, balance, payRes, bill, authVars>>

SpecCost == InitCost /\ [][EvalCost]_vars

\* The cost after the first k discounts of the list, by the rule of the
\* claim: a discount counts when it is active and now lies in its window.
RECURSIVE CostAfter(_, _, _, _)
CostAfter(fee, ds, k, t) ==
    IF k = 0 THEN Amount(fee)
    ELSE LET c == CostAfter(fee, ds, k - 1, t)
             x == ds[k]
             counts == /\ x.isActive
                       /\ x.validFrom # Undefined /\ x.validFrom[1] <= t
                       /\ x.validUntil # Undefined /\ t <= x.validUntil[1]
         IN  IF ~counts THEN c
             ELSE CASE x.type = "percentage" ->
                           [n |-> c.n * (100 - x.value), d |-> c.d * 100]
                    [] x.type = "fixed_amount" -> [n |-> c.n - x.value * c.d, d |-> c.d]
                    [] OTHER -> c

Valid(type, value) ==
    [type |-> type, value |-> value, validFrom |-> Some(0), validUntil |-> Some(2),
     isActive |-> TRUE]

\* C8: getCurrentMonthlyCost returns max(0, c), c being billing.monthlyFee
\* with the applicable discounts applied in list order; the result is never
\* negative, 20% off 50 gives 40 and a following fixed discount of 5 gives 35.
C8_CurrentMonthlyCost ==
    IsSet(cost.result) =>
        LET r == cost.result[1]
            c == CostAfter(cost.monthlyFee, cost.discounts, Len(cost.discounts), now)
        IN  /\ r.n >= 0 /\ r.d > 0
            /\ IF c.n >= 0 THEN r = c ELSE r.n = 0
            /\ cost.discounts = <<Valid("percentage", 20)>> => r.n = 40 * r.d
            /\ cost.discounts = <<Valid("percentage", 20), Valid("fixed_amount", 5)>>
                   => r.n = 35 * r.d

\* Stacked discounts that exceed the fee were evaluated, to zero.
C8_Witness ==
    /\ IsSet(cost.result)
    /\ cost.discounts = <<Valid("percentage", 20), Valid("fixed_amount", 60)>>
    /\ cost.result[1].n = 0

----------------------------------------------------------------------------
(* The next-billing-date hook over every start date and billing day        *)

Years == {2023, 2024}

StartDates ==
    {Date(y, m, d) : y \in Years, m \in 1..12, d \in 1..31} \cap
    {dt \in [y : Years, m : 1..12, d : 1..31] : dt.d <= DaysInMonth(dt.y, dt.m)}

InitBilling ==
    /\ now = 0
    /\ InitAuth
    /\ services = <<>>
    /\ slots = [c \in Slots |-> IdleSlot]
    /\ res = 0
    /\ payments = <<>>
    /\ balance = 0
    /\ payRes = 0
    /\ bill \in [startDate : StartDates, billingDay : 1..31,
                 nextBillingDate : {Undefined}]
    /\ cost = [monthlyFee |-> 0, discounts |-> <<>>, result |-> Undefined]

\* A service saved with a new contract.startDate.
SaveStartDate ==
    /\ ~IsSet(bill.nextBillingDate)
    /\ bill' = PreSaveBilling(bill, TRUE, FALSE)
    /\ UNCHANGED <<now, services, slots, res, payments, balance, payRes, cost, authVars>>

SpecBilling == InitBilling /\ [][SaveStartDate]_vars

NextMonthOf(dt) ==
    IF dt.m = 12 THEN [y |-> dt.y + 1, m |-> 1] ELSE [y |-> dt.y, m |-> dt.m + 1]

C10_NextBillingDateFollowsUpdates ==
    \A id \in 1..Len(services) :
        services[id].nextBillingDate =
            Some(NextBillingDate(services[id].startDate, services[id].billingDay))

----------------------------------------------------------------------------
(* Receipt numbering across a year boundary                                *)

\* The first tick of 2024-12-31, counted from tick 0 on 2024-03-20.
YearEnd == 286 * TicksPerDay

InitReceipts ==
    /\ now = YearEnd
    /\ InitAuth
    /\ services = <<>>
    /\ slots = [c \in Slots |-> IdleSlot]
    /\ res = 0
    /\ payments = <<>>
    /\ balance = 0
    /\ payRes = 0
    /\ bill = [startDate |-> Date(2024, 3, 20), billingDay |-> 15,
               nextBillingDate |-> Undefined]
    /\ cost = [monthlyFee |-> 0, discounts |-> <<>>, result |-> Undefined]

\* The clock around the turn of the year.
TickYearEnd ==
    /\ now < YearEnd + MaxTime
    /\ now' = now + 1
    /\ UNCHANGED <<services, slots, res, payments, balance, payRes, bill, cost, authVars>>

ReceiptInputs ==
    [services : {<<100>>}, additionalCharges : {<<>>, <<20>>},
     discounts : {<<>>}, dueDate : {Undefined},
     client : {ClientId}, refs : {<<1>>}]

NextReceipts ==
    \/ \E actor \in {"admin", "client"}, input \in ReceiptInputs, taxRate \in TaxRates :
           /\ Len(payments) < MaxReceipts
           /\ createPayment(actor, input, taxRate)
    \/ TickYearEnd

SpecReceipts == InitReceipts /\ [][NextReceipts]_vars

\* The calendar year a payment was created in.
YearOf(p) == Today(p.createdAt).y

\* C11: every receipt number is REC, the year of creation and, on six
\* zero-padded digits, one more than the number of receipts created earlier
\* in that calendar year: the first receipt of a year has sequence 000001
\* whatever earlier years hold, and the receipts of one year count 1, 2, 3.
C11_ReceiptNumberPerYear ==
    \A i \in 1..Len(payments) :
        LET n == payments[i].receiptNumber[1]
            earlier == {j \in 1..(i - 1) : YearOf(payments[j]) = YearOf(payments[i])}
        IN  /\ n.prefix = "REC"
            /\ n.year = YearOf(payments[i])
            /\ Len(n.digits) = 6
            /\ DigitsValue(n.digits) = Cardinality(earlier) + 1
            /\ earlier = {} => n.digits = <<0, 0, 0, 0, 0, 1>>

\* Two receipts of 2024, numbered 1 and 2, then the first of 2025, numbered 1.
C11_Witness ==
    /\ Len(payments) = 3
    /\ Today(payments[1].createdAt) = Date(2024, 12, 31)
    /\ YearOf(payments[2]) = 2024
    /\ Today(payments[3].createdAt) = Date(2025, 1, 1)
    /\ DigitsValue(payments[2].receiptNumber[1].digits) = 2
    /\ DigitsValue(payments[3].receiptNumber[1].digits) = 1

----------------------------------------------------------------------------
(* Receipts created with a tax rate; amounts in cents                      *)

TaxedInputs ==
    [services : {<<10000>>}, additionalCharges : {<<>>, <<2000>>},
     discounts : {<<>>, <<1000>>}, dueDate : {Undefined},
     client : {ClientId}, refs : {<<1>>}]

NextTaxed == Ledger({"admin", "client"}, TaxedInputs, NoAmount, {6000}, NoAmount)

SpecTaxed == Init /\ [][NextTaxed]_vars

\* The receipt the claim expects from line items and a tax rate in percent.
ExpectedReceipt(p, input, taxRate) ==
    LET subtotal == SumSeq(input.services) + SumSeq(input.additionalCharges)
        totalDiscounts == SumSeq(input.discounts)
        taxableAmount == subtotal - totalDiscounts
        tax == (taxableAmount * taxRate) \div 100
    IN  /\ p.subtotal = subtotal
        /\ p.totalDiscounts = totalDiscounts
        /\ p.taxableAmount = taxableAmount
        /\ Len(p.taxes) = 1 /\ p.taxes[1].amount = Some(tax)
        /\ p.totalTaxes = tax
        /\ p.totalAmount = taxableAmount + tax

\* C12: createPayment by an administrator with line items S, A, D and a tax
\* rate r > 0 persists a receipt with subtotal = sum(S) + sum(A),
\* totalDiscounts = sum(D), taxableAmount = subtotal - totalDiscounts, one tax
\* line of taxableAmount * r, totalTaxes equal to it and totalAmount =
\* taxableAmount + totalTaxes (100 + 20 - 10 at 12%: 120, 10, 110, 13.2, 123.2).
C12_CreatePaymentTotals ==
    [][\A input \in TaxedInputs, taxRate \in TaxRates \ {0} :
          createPayment("admin", input, taxRate)
              => /\ Len(payments') = Len(payments) + 1
                 /\ ExpectedReceipt(payments'[Len(payments')], input, taxRate)]_vars

\* C13: a processPayment request on a payment whose status is neither
\* 'pending' nor 'partial' is answered with an invalid-state error and leaves
\* the payment (status, paymentDate) and the client's balance unchanged.
C13_ProcessPaymentOnlyFromOpen ==
    [][\A id \in 1..Len(payments), actor \in {"admin", "supervisor", "billing"} :
          (/\ payments[id].status \notin {"pending", "partial"}
           /\ processPayment(actor, id, Undefined))
              => /\ payRes' = 400
                 /\ payments'[id].status = payments[id].status
                 /\ payments'[id].paymentDate = payments[id].paymentDate
                 /\ balance' = balance]_vars

----------------------------------------------------------------------------
(* Refunds: full and partial amounts, by every role, from every status     *)

RefundActors == {"admin", "billing", "client"}

RefundAmounts == {Undefined, Some(40)}

RefundInputs ==
    [services : {<<100>>}, additionalCharges : {<<>>, <<20>>},
     discounts : {<<>>}, dueDate : {Undefined},
     client : {ClientId}, refs : {<<1>>}]

NextRefund ==
    Ledger(RefundActors, RefundInputs, NoAmount, {60}, RefundAmounts)

SpecRefund == Init /\ [][NextRefund]_vars

----------------------------------------------------------------------------
(* Installation: completion requests on services in every status           *)

IpAddresses == {Undefined, Some("10.0.0.2")}

\* updateService bodies that move a service out of its current status.
InstallUpdates ==
    [status : {Some("suspended"), Some("cancelled")}, plan : {Undefined},
     contract : {Undefined}, billing : {Undefined}]

NextInstall ==
    \/ \E actor \in SuspendActors, input \in LifecycleInputs :
           /\ Len(services) + Cardinality(Creating) < MaxServices
           /\ createService_count(1, actor, input)
    \/ createService_insert(1)
    \/ \E actor \in SuspendActors, id \in ServiceIds, ip \in IpAddresses :
           completeInstallation(1, actor, id, ip)
    \/ \E actor \in SuspendActors, id \in ServiceIds, u \in InstallUpdates :
           updateService(1, actor, id, u)
    \/ Tick

SpecInstall == Init /\ [][NextInstall]_vars

\* C15: completeInstallation by an authorised role on a service that is
\* 'pending_installation' sets installation.completedDate to now and status
\* to 'active', and sets connection.ipAddress only when an address is given,
\* leaving everything else; on a service in any other status it is answered
\* with an invalid-state error and the service is unchanged.
C15_CompleteInstallation ==
    [][\A id \in 1..Len(services), actor \in SuspendActors, ip \in IpAddresses :
          completeInstallation(1, actor, id, ip) =>
              IF actor = "client" THEN res' = 403 /\ services' = services
              ELSE IF services[id].status = "pending_installation"
              THEN /\ res' = 200
                   /\ services'[id].status = "active"
                   /\ services'[id].completedDate = Some(now)
                   /\ services'[id].ipAddress =
                          IF ip = Undefined THEN services[id].ipAddress ELSE ip
                   /\ \A f \in DOMAIN services[id] \ {"status", "completedDate", "ipAddress"} :
                          services'[id][f] = services[id][f]
              ELSE res' = 400 /\ services' = services]_vars

\* An installation completed at tick 1 with no address given; a later
\* request on the service, cancelled since, was refused.
C15_Witness ==
    \E id \in 1..Len(services) :
        /\ services[id].completedDate = Some(1)
        /\ services[id].ipAddress = Undefined
        /\ services[id].status = "cancelled"
        /\ res = 400

\* C16: requests arriving one at a time, a suspend of a service that is not
\* 'suspended' appends exactly one suspension entry, with isActive = true, and
\* sets status to 'suspended'; a suspend of a service that is 'suspended' is
\* answered with an invalid-state error, status and suspensions unchanged.
C16_SuspendOnce ==
    [][\A id \in 1..Len(services) :
          /\ (/\ services[id].status = "suspended"
              /\ \E actor \in {"admin"} :
                     suspendService_check(1, actor, id, "non_payment"))
                 => /\ res' = 400
                    /\ services' = services
                    /\ slots' = slots
          /\ (slots[1].svc = id /\ suspendService_save(1))
                 => LET old == services[id].suspensions
                        new == services'[id].suspensions
                    IN  /\ services[id].status # "suspended"
                        /\ Len(new) = Len(old) + 1
                        /\ SubSeq(new, 1, Len(old)) = old
                        /\ new[Len(new)].isActive
                        /\ services'[id].status = "suspended"
                        /\ res' = 200]_vars

\* A service suspended, reactivated and suspended again, whose next suspend
\* request was refused.
C16_Witness ==
    \E id \in 1..Len(services) :
        /\ Len(services[id].suspensions) = 2
        /\ ~services[id].suspensions[1].isActive
        /\ services[id].suspensions[2].isActive
        /\ services[id].status = "suspended"
        /\ res = 400

----------------------------------------------------------------------------
(* Plan changes: to active, inactive and missing plans                     *)

PlanActors == {"billing", "technician"}

\* An id that InternetPlan.findById does not find.
MissingPlan == 4

RequestedPlans == PlanIds \cup {MissingPlan}

PlanInputs ==
    [plan : {1, 2}, startDate : {Undefined, Some(Date(2024, 1, 31))},
     billingDay : {Undefined, Some(15), Some(28)}]

NextPlan ==
    \/ \E actor \in PlanActors, input \in PlanInputs :
           /\ Len(services) + Cardinality(Creating) < MaxServices
           /\ createService_count(1, actor, input)
    \/ createService_insert(1)
    \/ \E actor \in PlanActors, id \in ServiceIds, p \in RequestedPlans :
           changePlanRequest(1, actor, id, p)

SpecPlan == Init /\ [][NextPlan]_vars

\* C17: a changePlan request by an authorised role naming an active plan
\* appends exactly one planChanges entry, from the plan referenced before the
\* call to the new plan, and leaves the service on the new plan with
\* billing.monthlyFee the new plan's monthly price; a request naming a missing
\* or inactive plan is rejected with the service unchanged.
C17_ChangePlan ==
    [][\A id \in 1..Len(services), actor \in PlanActors, p \in RequestedPlans :
          changePlanRequest(1, actor, id, p) =>
              IF actor = "technician" THEN res' = 403 /\ services' = services
              ELSE IF p \in {1, 2}
              THEN LET old == services[id].planChanges
                       new == services'[id].planChanges
                   IN  /\ res' = 200
                       /\ Len(new) = Len(old) + 1
                       /\ SubSeq(new, 1, Len(old)) = old
                       /\ new[Len(new)].fromPlan = services[id].plan
                       /\ new[Len(new)].toPlan = p
                       /\ services'[id].plan = p
                       /\ services'[id].monthlyFee = PlanCatalog[p].monthly
              ELSE /\ res' = 400
                   /\ services'[id].plan = services[id].plan
                   /\ services'[id].monthlyFee = services[id].monthlyFee
                   /\ services'[id].planChanges = services[id].planChanges]_vars

\* A service moved from plan 1 to plan 2, whose next request, for a plan
\* that is not offered, was refused.
C17_Witness ==
    \E id \in 1..Len(services) :
        /\ Len(services[id].planChanges) = 1
        /\ services[id].planChanges[1].fromPlan = 1
        /\ services[id].planChanges[1].toPlan = 2
        /\ services[id].plan = 2
        /\ services[id].monthlyFee = 80
        /\ res = 400

\* C18: once the status of a service is 'cancelled', no suspend, reactivate,
\* completeInstallation, changePlan or updateService request changes it.
C18_CancelledIsTerminal ==
    [][\A id \in 1..Len(services) :
          (/\ services[id].status = "cancelled"
           /\ ~\E c \in Slots, actor \in Roles, st \in StatusEnum :
                  toggleServiceStatus(c, actor, id, st))
              => services'[id].status = "cancelled"]_vars

----------------------------------------------------------------------------
(* Service codes under updates of an existing service                      *)

\* Bodies of the administrator's updateService: a service code, a status.
AdminBodies ==
    [serviceCode : {Undefined, Some(FormatServiceCode(0)), Some(FormatServiceCode(8))},
     status : {Undefined, Some("maintenance")}]

NextCodes ==
    \/ \E actor \in SuspendActors, input \in LifecycleInputs :
           /\ Len(services) + Cardinality(Creating) < MaxServices
           /\ createService_count(1, actor, input)
    \/ createService_insert(1)
    \/ \E actor \in SuspendActors, id \in ServiceIds, ip \in IpAddresses :
           completeInstallation(1, actor, id, ip)
    \/ \E actor \in SuspendActors, id \in ServiceIds, u \in InstallUpdates :
           updateService(1, actor, id, u)
    \/ \E actor \in SuspendActors, id \in ServiceIds, body \in AdminBodies :
           updateServiceAdmin(1, actor, id, body)
    \/ Tick

SpecCodes == Init /\ [][NextCodes]_vars

\* C19: no request changes the serviceCode of an existing service, and no two
\* persisted services share a serviceCode.
C19_ServiceCodeImmutable ==
    [][/\ \A id \in 1..Len(services) :
              services'[id].serviceCode = services[id].serviceCode
       /\ \A i, j \in 1..Len(services') :
              i # j => services'[i].serviceCode # services'[j].serviceCode]_vars

\* C20: in every reachable state the contract.endDate of a service is its
\* contract.startDate plus contract.duration months, after createService and
\* after every updateService that changes the contract.
C20_EndDateFollowsContract ==
    \A id \in 1..Len(services) :
        services[id].endDate =
            Some(setMonth(services[id].startDate,
                          services[id].startDate.m + services[id].duration))

----------------------------------------------------------------------------
(* Receipts whose line items reference services of the client or not       *)

OwnedInputs ==
    [services : {<<100>>}, additionalCharges : {<<>>, <<20>>}, discounts : {<<>>},
     dueDate : {Undefined}, client : {ClientId, NoClient},
     refs : {<<1>>, <<3>>, <<MissingService>>}]
    \cup
    [services : {<<100, 50>>}, additionalCharges : {<<>>}, discounts : {<<>>},
     dueDate : {Undefined}, client : {ClientId},
     refs : {<<1, 2>>, <<1, 3>>, <<2, MissingService>>, <<1, 1>>}]

NextOwned == Ledger({"admin", "client"}, OwnedInputs, NoAmount, {60}, NoAmount)

SpecOwned == Init /\ [][NextOwned]_vars

\* Line item i of the request references an existing service of the client.
Owned(input, i) ==
    /\ input.refs[i] \in DOMAIN ServiceOwners
    /\ ServiceOwners[input.refs[i]] = input.client

\* C21: a createPayment request persists a receipt only if every line item
\* references an existing service of the receipt's client; a request with a
\* line item whose service is missing or belongs to another client is
\* rejected, with no receipt created and the client's balance unchanged.
C21_ReceiptOnlyForOwnServices ==
    [][\A actor \in {"admin", "client"}, input \in OwnedInputs, taxRate \in TaxRates :
          createPayment(actor, input, taxRate) =>
              /\ Len(payments') > Len(payments)
                     => /\ \A i \in 1..Len(input.refs) : Owned(input, i)
                        /\ payments'[Len(payments')].client = input.client
              /\ (\E i \in 1..Len(input.refs) : ~Owned(input, i))
                     => /\ payRes' \in {400, 403}
                        /\ payments' = payments
                        /\ balance' = balance]_vars

\* A receipt with two line items, both services of the client, was created
\* and charged to the balance.
C21_Witness ==
    /\ Len(payments) = 1
    /\ Len(payments[1].services) = 2
    /\ payments[1].client = ClientId
    /\ payments[1].status = "pending"
    /\ balance = 150

----------------------------------------------------------------------------
(* Every role on the gated operations: receipts, plan changes, refunds     *)

NextRoles ==
    \/ \E input \in LifecycleInputs :
           /\ Len(services) + Cardinality(Creating) < MaxServices
           /\ createService_count(1, "admin", input)
    \/ createService_insert(1)
    \/ \E actor \in Roles, id \in ServiceIds :
           changePlanRequest(1, actor, id, 2)
    \/ \E actor \in Roles, input \in PartialInputs :
           /\ Len(payments) < MaxPayments
           /\ postPayment(actor, input, 0)
    \/ \E id \in PaymentIds : processPayment("billing", id, Undefined)
    \/ \E actor \in Roles, id \in PaymentIds : postRefund(actor, id, Undefined)

SpecRoles == Init /\ [][NextRoles]_vars

\* C22: a createPayment or changePlan request by a role outside admin,
\* supervisor and billing, and a processRefund request by a role outside
\* admin and supervisor, is answered with an authorization error and changes
\* no document, through the route and through the handler.
C22_RoleGates ==
    [][\A actor \in Roles :
          /\ (/\ actor \notin {"admin", "supervisor", "billing"}
              /\ \E input \in PartialInputs : postPayment(actor, input, 0))
                 => payRes' = 403 /\ UNCHANGED <<payments, balance, services>>
          /\ (/\ actor \notin {"admin", "supervisor", "billing"}
              /\ \E id \in ServiceIds : changePlanRequest(1, actor, id, 2))
                 => res' = 403 /\ UNCHANGED <<payments, balance, services>>
          /\ (/\ actor \notin {"admin", "supervisor"}
              /\ \E id \in PaymentIds : postRefund(actor, id, Undefined))
                 => payRes' = 403 /\ UNCHANGED <<payments, balance, services>>]_vars

\* A plan changed and a receipt refunded by permitted roles, and the last
\* request on each side refused for its role.
C22_Witness ==
    /\ Len(services) = 1 /\ Len(services[1].planChanges) = 1
    /\ Len(payments) = 1 /\ payments[1].status = "refunded"
    /\ res = 403
    /\ payRes = 403

----------------------------------------------------------------------------
(* Usage recorded by concurrent requests                                   *)

UsageInputs ==
    {[downloadGB |-> 1, uploadGB |-> 0], [downloadGB |-> 0, uploadGB |-> 1]}

NextUsage ==
    \/ \E c \in Slots, input \in LifecycleInputs :
           /\ Len(services) + Cardinality(Creating) < MaxServices
           /\ createService_count(c, "admin", input)
    \/ \E c \in Slots : createService_insert(c)
    \/ \E c \in Slots, id \in ServiceIds, input \in UsageInputs :
           /\ Found(id)
           /\ services[id].dataUsage.total + input.downloadGB + input.uploadGB <= MaxData
           /\ usage_load(c, id, input.downloadGB, input.uploadGB)
    \/ \E c \in Slots : usage_save(c)

SpecUsage == Init /\ [][NextUsage]_vars

\* C23: every completed updateDataUsage(d, u) call adds d to the stored
\* download and u to the stored upload of the service, and leaves the stored
\* total equal to download + upload, also when other requests loaded and
\* saved the same service in between.
C23_NoIncrementLost ==
    [][\A c \in Slots :
          usage_save(c) =>
              LET id == slots[c].svc
                  before == services[id].dataUsage
                  after == services'[id].dataUsage
              IN  /\ after.download = before.download + slots[c].data[1].downloadGB
                  /\ after.upload = before.upload + slots[c].data[1].uploadGB
                  /\ after.total = after.download + after.upload]_vars

----------------------------------------------------------------------------
\* C25: in every state reached by createService, suspend, reactivate and
\* completeInstallation requests, a service with status 'active' has
\* installation.completedDate set.
C25_ActiveOnlyAfterInstallation ==
    \A i \in 1..Len(services) :
        services[i].status = "active" => IsSet(services[i].completedDate)

----------------------------------------------------------------------------
\* C26: the client's balance follows the ledger: every receipt created adds
\* its totalAmount, every amount recorded as paid, by processPayment or as a
\* partial payment, is subtracted, and every refund adds its amount, so that
\* the balance is the sum of the totals minus the sum paid plus the refunds.
C26_BalanceFollowsLedger ==
    [][\A actor \in {"admin", "client"} :
          /\ \A input \in PartialInputs, taxRate \in TaxRates :
                 createPayment(actor, input, taxRate) /\ Len(payments') > Len(payments)
                     => balance' = balance + payments'[Len(payments')].totalAmount
          /\ \A id \in PaymentIds, amount \in {Undefined, Some(50)} :
                 processPayment(actor, id, amount) /\ payRes' = 200
                     => balance' = balance - (IF IsSet(amount) THEN amount[1]
                                              ELSE payments[id].totalAmount)
          /\ \A id \in PaymentIds, amount \in PaidAmounts :
                 addPartialPaymentRequest(actor, id, amount) /\ payRes' = 200
                     => balance' = balance - amount]_vars

----------------------------------------------------------------------------
\* C27: a payment whose status is 'refunded' keeps that status through every
\* later addPartialPayment and processPayment request.
C27_RefundedIsFinal ==
    [][\A id \in PaymentIds :
          PaymentFound(id) /\ payments[id].status = "refunded"
              => payments'[id].status = "refunded"]_vars

----------------------------------------------------------------------------
(* Authentication with the user cache                                      *)

NextAuth ==
    \/ \E token \in Tokens : auth(token)
    \/ \E token \in Tokens : optionalAuth(token)
    \/ sweep
    \/ signal
    \/ \E userId \in UserIds, status \in UserStatuses : toggleUserStatus(userId, status)
    \/ \E userId \in UserIds, locked \in BOOLEAN : loginAttempt(userId, locked)
    \/ clock < MaxClock /\ ClockTick

SpecAuth == Init /\ [][NextAuth]_vars

\* C24: auth serves a user from the cache only when the entry is younger
\* than CACHE_TTL and then leaves the cache alone; otherwise it reads the
\* store and, when the user is there, puts a fresh entry stamped with the
\* current time; a sweep deletes exactly the entries older than CACHE_TTL;
\* a termination signal empties the cache.
C24_CacheIsTimeBounded ==
    [][/\ \A token \in Tokens :
             (token.kind = "valid" /\ auth(token)) =>
                 LET u == token.user
                     fresh == IsSet(userCache[u])
                                  /\ clock - userCache[u][1].timestamp < CACHE_TTL
                 IN  /\ req'.source = "cache" => fresh
                     /\ fresh => userCache' = userCache /\ req'.source # "store"
                     /\ (~fresh /\ u \in UserIds) =>
                            userCache'[u] = Some([user |-> [status |-> users[u].status],
                                                  timestamp |-> clock])
                     /\ (~fresh /\ u \notin UserIds) => userCache' = userCache
       /\ sweep =>
              \A k \in DOMAIN userCache :
                  userCache'[k] =
                      IF IsSet(userCache[k]) /\ clock - userCache[k][1].timestamp > CACHE_TTL
                      THEN Undefined ELSE userCache[k]
       /\ signal => \A k \in DOMAIN userCache : userCache'[k] = Undefined]_vars

\* An entry replaced from the store after the one before it had expired: the
\* user was admitted from the store at a time past CACHE_TTL.
C24_Witness ==
    /\ IsSet(userCache[1])
    /\ userCache[1][1].timestamp = clock
    /\ clock >= CACHE_TTL
    /\ req.source = "store"
    /\ req.next = 1

----------------------------------------------------------------------------
\* C28: optionalAuth sends no error response and calls next exactly once,
\* and when there is no Authorization header or the token does not
\* authenticate (refused or expired token, unknown user, inactive or
\* suspended account) req.user is null.
C28_OptionalAuthNeverRejects ==
    [][\A token \in Tokens :
          optionalAuth(token) =>
              /\ req'.status = 0
              /\ req'.next = 1
              /\ req'.user \in {"null", "set"}]_vars

----------------------------------------------------------------------------
\* C30: auth answers a valid token of an account that is inactive or
\* suspended in the store with 403, whether or not a cache entry of the
\* user is within its TTL.
C30_CacheAgreesWithStore ==
    [][\A token \in Tokens :
          (/\ token.kind = "valid"
           /\ token.user \in UserIds
           /\ users[token.user].status \in {"inactive", "suspended"}
           /\ auth(token))
              => req'.status = 403 /\ req'.next = 0]_vars

----------------------------------------------------------------------------
(* Reading one payment                                                     *)

OwnershipInputs ==
    [services : {<<100>>}, additionalCharges : {<<>>, <<20>>}, discounts : {<<>>},
     dueDate : {Undefined}, client : {ClientId}, refs : {<<1>>}]
    \cup
    [services : {<<100>>}, additionalCharges : {<<>>, <<20>>}, discounts : {<<>>},
     dueDate : {Undefined}, client : {OtherClient}, refs : {<<3>>}]

ReaderRoles == {"admin", "supervisor", "billing", "client"}

NextOwnership ==
    \/ Ledger({"admin"}, OwnershipInputs, NoAmount, {60}, NoAmount)
    \/ \E role \in ReaderRoles, userId \in ClientUsers, id \in PaymentIds :
           getPaymentRoute(role, userId, id)

SpecOwnership == Init /\ [][NextOwnership]_vars

\* C29: on GET /api/payments/:id a client is answered with the payment
\* exactly when the payment's client is the client's own id, and an admin or
\* supervisor is answered with every payment there is.
C29_ClientReadsOwnPayments ==
    [][\A role \in ReaderRoles, userId \in ClientUsers, id \in PaymentIds :
          (PaymentFound(id) /\ getPaymentRoute(role, userId, id)) =>
              /\ role = "client" => (payRes' = 200 <=> payments[id].client = userId)
              /\ role \in {"admin", "supervisor"} => payRes' = 200]_vars

====
